---- MODULE Spec2Model ----
(***************************************************************************)
(* Model of src/app.py: the video-to-text pipeline of main() and the       *)
(* stages of StreamlitVideoExtractor (download_video,                      *)
(* upload_video_to_gemini, extract_text_from_video, summarize_text).       *)
(*                                                                         *)
(* One behaviour is one run of main().  The remote collaborators           *)
(* (requests, genai.upload_file, genai.get_file, generate_content,         *)
(* os.unlink) are inputs: each call either raises or returns one of a      *)
(* small set of values.                                                    *)
(*                                                                         *)
(* Progress fractions are kept exact as numerators over max_wait_time:     *)
(* the value p stands for p / max_wait_time, so 1.0 is max_wait_time and   *)
(* 0.9 is 9 * max_wait_time / 10.                                          *)
(***************************************************************************)
EXTENDS Integers, Sequences, FiniteSets

\* ---------------------------------------------------------------- bounds
\* largest number of chunks the streamed URL download delivers
MaxChunks == 2

\* ------------------------------------------------------------- constants
\* max_wait_time = 300 (seconds), the poller's ceiling
max_wait_time == 300
\* time.sleep(2) and wait_time += 2
poll_interval == 2

None == "None"

\* video_file.state.name as the remote service can report it
States == {"PROCESSING", "ACTIVE", "FAILED", "STATE_UNSPECIFIED"}

\* response.text values of generate_content ("" is the empty response)
Texts == {"", "t1", "t2"}

\* the file_uploader's allow-list
Formats == {"mp4", "mov", "avi", "webm", "mpg", "mpeg", "wmv", "flv"}

\* name of the NamedTemporaryFile of the run
TmpName == "tmpfile"

VARIABLES
    pc,             \* position of the run in main()
    source,         \* which button was pressed: "url", "file", "none"
    fmt,            \* format hint of the uploaded file, None otherwise
    files,          \* transient files on disk: set of [name, suffix]
    video_path,     \* main's video_path
    chunks_left,    \* chunks response.iter_content still has to deliver
    total_size,     \* content-length header as parsed (0 when absent)
    downloaded,     \* download_video's downloaded counter
    file_state,     \* video_file.state.name inside upload_video_to_gemini
    wait_time,      \* the poller's wait_time
    slept,          \* total of the time.sleep intervals performed
    progress_log,   \* values given to the poller's progress bar, in order
    video_file,     \* main's video_file (the poller's return value)
    extracted_text, \* main's extracted_text
    summary,        \* main's summary
    summarize_arg,  \* the text summarize_text was called with
    rendered,       \* result panes rendered by main
    status,         \* the status channel: sequence of <<kind, message>>
    calls,          \* number of calls of each remote operation
    fault,          \* the remote call that raised in this run, or None
    unlink_failed,  \* os.unlink raised (swallowed by main)
    cleanup_reached \* main reached its cleanup block

vars == <<pc, source, fmt, files, video_path, chunks_left, total_size,
          downloaded, file_state, wait_time, slept, progress_log,
          video_file, extracted_text, summary, summarize_arg, rendered,
          status, calls, fault, unlink_failed, cleanup_reached>>

Ops == {"get", "upload_file", "get_file", "extract", "summarize", "unlink"}

\* ---------------------------------------------------------------- helpers
Min(a, b) == IF a <= b THEN a ELSE b

Msg(kind, text) == <<kind, text>>

Say(m) == status' = Append(status, m)

Say2(m1, m2) == status' = status \o <<m1, m2>>

Called(op) == calls' = [calls EXCEPT ![op] = @ + 1]

Reported(m) == \E i \in 1..Len(status) : status[i] = m

\* Python truthiness of a str-or-None value: `if x:`
Truthy(x) == x # None /\ x # ""

\* tempfile.NamedTemporaryFile(delete=False, suffix='.mp4')
NamedTemporaryFile == [name |-> TmpName, suffix |-> ".mp4"]

\* full scale of the progress bar, progress(1.0)
FullProgress == max_wait_time

\* the 0.9 of min(wait_time / max_wait_time, 0.9)
ProgressCap == (9 * max_wait_time) \div 10

\* variant: max instead of min
Progress_Max(w) == IF w >= ProgressCap THEN w ELSE ProgressCap

\* variant: the fraction is computed from wait_time before its increment
Progress_BeforeIncrement(w) == Min(w - poll_interval, ProgressCap)

\* progress = min(wait_time / max_wait_time, 0.9)
Progress(w) == Min(w, ProgressCap)

\* variant: the ceiling is noticed one iteration late
TimedOut_Late(w) == w > max_wait_time + poll_interval

\* variant: `if wait_time >= max_wait_time`
TimedOut_AtCeiling(w) == w >= max_wait_time

\* if wait_time > max_wait_time
TimedOut(w) == w > max_wait_time

\* variant: `while video_file.state.name != "ACTIVE"`
StillProcessing_NotActive(s) == s # "ACTIVE"

\* while video_file.state.name == "PROCESSING"
StillProcessing(s) == s = "PROCESSING"

\* variant: only FAILED is rejected, every other state returns the handle
Classify_OnlyFailed(s) == IF s = "FAILED" THEN None ELSE "handle"

\* what upload_video_to_gemini returns for the state that ended the loop
Classify(s) == IF s = "ACTIVE" THEN "handle" ELSE None

\* the status message of the classification
ClassifyMsg(s) ==
    IF s = "FAILED" THEN Msg("error", "processing_failed")
    ELSE IF s = "ACTIVE" THEN Msg("success", "video_ready")
    ELSE Msg("warning", "unexpected_state")

\* main: `if video_path:` guards the processing block and the cleanup
AfterResolve(path) == IF path # None THEN "upload" ELSE "done"

\* variant: main does not test video_file
AfterUpload_NoCheck(vf) == "extract"

\* variant: the cleanup sits inside `if video_file:`
AfterUpload_SkipCleanup(vf) == IF vf # None THEN "extract" ELSE "done"

\* main: `if video_file:`
AfterUpload(vf) == IF vf # None THEN "extract" ELSE "cleanup"

\* variant: `if extracted_text is not None:`
AfterExtract_NotNone(text) == IF text # None THEN "summarize" ELSE "cleanup"

\* variant: the test is inverted, `if not extracted_text:`
AfterExtract_Inverted(text) == IF Truthy(text) THEN "cleanup" ELSE "summarize"

\* main: `if extracted_text:`
AfterExtract(text) == IF Truthy(text) THEN "summarize" ELSE "cleanup"

\* variant: `if summary is not None:`
AfterSummarize_NotNone(text) == IF text # None THEN "render" ELSE "cleanup"

\* main: `if summary:`
AfterSummarize(text) == IF Truthy(text) THEN "render" ELSE "cleanup"

\* ------------------------------------------------------------------- Init
Init ==
    /\ pc = "main"
    /\ source = "none"
    /\ fmt = None
    /\ files = {}
    /\ video_path = None
    /\ chunks_left = 0
    /\ total_size = 0
    /\ downloaded = 0
    /\ file_state = None
    /\ wait_time = 0
    /\ slept = 0
    /\ progress_log = <<>>
    /\ video_file = None
    /\ extracted_text = None
    /\ summary = None
    /\ summarize_arg = None
    /\ rendered = {}
    /\ status = <<>>
    /\ calls = [op \in Ops |-> 0]
    /\ fault = None
    /\ unlink_failed = FALSE
    /\ cleanup_reached = FALSE

\* --------------------------------------------------------------- main()
\* main: `if not api_key:` warning, info, return
NoApiKey ==
    /\ pc = "main"
    /\ pc' = "done"
    /\ Say2(Msg("warning", "no_api_key"), Msg("info", "get_api_key"))
    /\ UNCHANGED <<source, fmt, files, video_path, chunks_left, total_size,
                   downloaded, file_state, wait_time, slept, progress_log,
                   video_file, extracted_text, summary, summarize_arg,
                   rendered, calls, fault, unlink_failed, cleanup_reached>>

\* main: neither button pressed in this run; video_path stays None
NoClick ==
    /\ pc = "main"
    /\ pc' = AfterResolve(video_path)
    /\ UNCHANGED <<source, fmt, files, video_path, chunks_left, total_size,
                   downloaded, file_state, wait_time, slept, progress_log,
                   video_file, extracted_text, summary, summarize_arg,
                   rendered, status, calls, fault, unlink_failed,
                   cleanup_reached>>

\* main, tab1: "Process Video from URL" pressed
ClickUrl ==
    /\ pc = "main"
    /\ source' = "url"
    /\ \E url_given \in BOOLEAN :
          IF url_given
          THEN /\ pc' = "download"
               /\ UNCHANGED status
          ELSE /\ pc' = AfterResolve(video_path)
               /\ Say(Msg("error", "enter_url"))
    /\ UNCHANGED <<fmt, files, video_path, chunks_left, total_size,
                   downloaded, file_state, wait_time, slept, progress_log,
                   video_file, extracted_text, summary, summarize_arg,
                   rendered, calls, fault, unlink_failed, cleanup_reached>>

\* main, tab2: "Process Uploaded Video" pressed
ClickUpload ==
    /\ pc = "main"
    /\ source' = "file"
    /\ \/ \E f \in Formats :
            /\ fmt' = f
            /\ files' = files \cup {NamedTemporaryFile}
            /\ video_path' = NamedTemporaryFile.name
            /\ Say(Msg("success", "file_saved"))
            /\ pc' = AfterResolve(video_path')
       \/ /\ Say(Msg("error", "no_file"))
          /\ pc' = AfterResolve(video_path)
          /\ UNCHANGED <<fmt, files, video_path>>
    /\ UNCHANGED <<chunks_left, total_size, downloaded, file_state,
                   wait_time, slept, progress_log, video_file,
                   extracted_text, summary, summarize_arg, rendered, calls,
                   fault, unlink_failed, cleanup_reached>>

\* ------------------------------------------------------ download_video()
\* requests.get + raise_for_status, then the temp file is allocated
DownloadOpen ==
    /\ pc = "download"
    /\ Called("get")
    /\ \/ /\ fault' = "get"
          /\ Say(Msg("error", "download_error"))
          /\ video_path' = None
          /\ pc' = AfterResolve(video_path')
          /\ UNCHANGED <<files, chunks_left, total_size>>
       \/ \E n \in 0..MaxChunks, has_length \in BOOLEAN :
            /\ files' = files \cup {NamedTemporaryFile}
            /\ chunks_left' = n
            /\ total_size' = IF has_length THEN n ELSE 0
            /\ pc' = "stream"
            /\ UNCHANGED <<fault, status, video_path>>
    /\ UNCHANGED <<source, fmt, downloaded, file_state, wait_time, slept,
                   progress_log, video_file, extracted_text, summary,
                   summarize_arg, rendered, unlink_failed, cleanup_reached>>

\* one iteration of `for chunk in response.iter_content(...)`
DownloadChunk ==
    /\ pc = "stream"
    /\ chunks_left > 0
    /\ chunks_left' = chunks_left - 1
    /\ downloaded' = IF total_size > 0 THEN downloaded + 1 ELSE downloaded
    /\ UNCHANGED <<pc, source, fmt, files, video_path, total_size,
                   file_state, wait_time, slept, progress_log, video_file,
                   extracted_text, summary, summarize_arg, rendered, status,
                   calls, fault, unlink_failed, cleanup_reached>>

\* the stream raises while the temp file is open: except branch, return None
DownloadFault ==
    /\ pc = "stream"
    /\ fault' = "get"
    /\ Say(Msg("error", "download_error"))
    /\ video_path' = None
    /\ pc' = AfterResolve(video_path')
    /\ UNCHANGED <<source, fmt, files, chunks_left, total_size, downloaded,
                   file_state, wait_time, slept, progress_log, video_file,
                   extracted_text, summary, summarize_arg, rendered, calls,
                   unlink_failed, cleanup_reached>>

\* the stream is exhausted: close, success, return temp_file.name
DownloadFinish ==
    /\ pc = "stream"
    /\ chunks_left = 0
    /\ Say(Msg("success", "downloaded"))
    /\ video_path' = NamedTemporaryFile.name
    /\ pc' = AfterResolve(video_path')
    /\ UNCHANGED <<source, fmt, files, chunks_left, total_size, downloaded,
                   file_state, wait_time, slept, progress_log, video_file,
                   extracted_text, summary, summarize_arg, rendered, calls,
                   fault, unlink_failed, cleanup_reached>>

\* --------------------------------------------- upload_video_to_gemini()
\* genai.upload_file(path=video_path), then the progress bar is created
UploadFile ==
    /\ pc = "upload"
    /\ Called("upload_file")
    /\ \/ /\ fault' = "upload_file"
          /\ Say(Msg("error", "upload_error"))
          /\ video_file' = None
          /\ pc' = AfterUpload(video_file')
          /\ UNCHANGED <<file_state, progress_log, wait_time>>
       \/ \E s \in States :
            /\ file_state' = s
            /\ Say2(Msg("success", "uploaded"), Msg("info", "waiting"))
            /\ progress_log' = <<0>>
            /\ wait_time' = 0
            /\ pc' = "poll"
            /\ UNCHANGED <<fault, video_file>>
    /\ UNCHANGED <<source, fmt, files, video_path, chunks_left, total_size,
                   downloaded, slept, extracted_text, summary,
                   summarize_arg, rendered, unlink_failed, cleanup_reached>>

\* the head of one iteration of the while loop (106-115): count, report
\* progress, check the ceiling; past the ceiling the poller returns None,
\* otherwise it goes on to sleep (status_text is a placeholder that is
\* overwritten and emptied, it is not part of the status channel)
PollIter ==
    /\ pc = "poll"
    /\ StillProcessing(file_state)
    /\ wait_time' = wait_time + poll_interval
    /\ progress_log' = Append(progress_log, Progress(wait_time'))
    /\ IF TimedOut(wait_time')
       THEN /\ Say(Msg("error", "timeout"))
            /\ video_file' = None
            /\ pc' = AfterUpload(video_file')
       ELSE /\ pc' = "sleep"
            /\ UNCHANGED <<status, video_file>>
    /\ UNCHANGED <<source, fmt, files, video_path, chunks_left, total_size,
                   downloaded, file_state, slept, extracted_text, summary,
                   summarize_arg, rendered, calls, fault, unlink_failed,
                   cleanup_reached>>

\* time.sleep(2) returns: the run was blocked with wait_time already
\* advanced and its progress value already emitted
PollSleep ==
    /\ pc = "sleep"
    /\ slept' = slept + poll_interval
    /\ pc' = "query"
    /\ UNCHANGED <<source, fmt, files, video_path, chunks_left, total_size,
                   downloaded, file_state, wait_time, progress_log,
                   video_file, extracted_text, summary, summarize_arg,
                   rendered, status, calls, fault, unlink_failed,
                   cleanup_reached>>

\* genai.get_file(video_file.name) returns the re-queried state, back to the
\* loop head, or raises into the except branch (133-135)
PollQuery ==
    /\ pc = "query"
    /\ Called("get_file")
    /\ \/ /\ fault' = "get_file"
          /\ Say(Msg("error", "upload_error"))
          /\ video_file' = None
          /\ pc' = AfterUpload(video_file')
          /\ UNCHANGED file_state
       \/ \E s \in States :
            /\ file_state' = s
            /\ pc' = "poll"
            /\ UNCHANGED <<fault, status, video_file>>
    /\ UNCHANGED <<source, fmt, files, video_path, chunks_left, total_size,
                   downloaded, wait_time, slept, progress_log,
                   extracted_text, summary, summarize_arg, rendered,
                   unlink_failed, cleanup_reached>>

\* the loop ended: progress(1.0), then the state is classified
PollExit ==
    /\ pc = "poll"
    /\ ~StillProcessing(file_state)
    /\ progress_log' = Append(progress_log, FullProgress)
    /\ Say(ClassifyMsg(file_state))
    /\ video_file' = Classify(file_state)
    /\ pc' = AfterUpload(video_file')
    /\ UNCHANGED <<source, fmt, files, video_path, chunks_left, total_size,
                   downloaded, file_state, wait_time, slept, extracted_text,
                   summary, summarize_arg, rendered, calls, fault,
                   unlink_failed, cleanup_reached>>

\* -------------------------------------------- extract_text_from_video()
\* generate_content raises; or it returns and success is reported before
\* response.text is read, which yields the text or raises (no usable part)
Extract ==
    /\ pc = "extract"
    /\ Called("extract")
    /\ \/ /\ fault' = "extract"
          /\ Say(Msg("error", "extract_error"))
          /\ extracted_text' = None
       \/ \E t \in Texts :
            /\ Say(Msg("success", "extracted"))
            /\ extracted_text' = t
            /\ UNCHANGED fault
       \/ /\ fault' = "extract_text"
          /\ Say2(Msg("success", "extracted"), Msg("error", "extract_error"))
          /\ extracted_text' = None
    /\ pc' = AfterExtract(extracted_text')
    /\ UNCHANGED <<source, fmt, files, video_path, chunks_left, total_size,
                   downloaded, file_state, wait_time, slept, progress_log,
                   video_file, summary, summarize_arg, rendered,
                   unlink_failed, cleanup_reached>>

\* ------------------------------------------------------ summarize_text()
Summarize ==
    /\ pc = "summarize"
    /\ Called("summarize")
    /\ summarize_arg' = extracted_text
    /\ \/ /\ fault' = "summarize"
          /\ Say(Msg("error", "summary_error"))
          /\ summary' = None
       \/ \E t \in Texts :
            /\ Say(Msg("success", "summarized"))
            /\ summary' = t
            /\ UNCHANGED fault
       \/ /\ fault' = "summarize_text"
          /\ Say2(Msg("success", "summarized"), Msg("error", "summary_error"))
          /\ summary' = None
    /\ pc' = AfterSummarize(summary')
    /\ UNCHANGED <<source, fmt, files, video_path, chunks_left, total_size,
                   downloaded, file_state, wait_time, slept, progress_log,
                   video_file, extracted_text, rendered, unlink_failed,
                   cleanup_reached>>

\* ------------------------------------------------------- main(), results
\* the panes main renders inside `if summary:`
ResultPanes == {"extracted_text", "summary", "report"}

Render ==
    /\ pc = "render"
    /\ rendered' = ResultPanes
    /\ pc' = "cleanup"
    /\ UNCHANGED <<source, fmt, files, video_path, chunks_left, total_size,
                   downloaded, file_state, wait_time, slept, progress_log,
                   video_file, extracted_text, summary, summarize_arg,
                   status, calls, fault, unlink_failed, cleanup_reached>>

\* os.path.exists(video_path)
Exists(path) == \E f \in files : f.name = path

\* main: try: if os.path.exists(video_path): os.unlink(video_path)
\*       except: pass
Cleanup ==
    /\ pc = "cleanup"
    /\ cleanup_reached' = TRUE
    /\ IF Exists(video_path)
       THEN /\ Called("unlink")
            /\ \/ /\ files' = {f \in files : f.name # video_path}
                  /\ UNCHANGED unlink_failed
               \/ /\ unlink_failed' = TRUE
                  /\ UNCHANGED files
       ELSE UNCHANGED <<files, calls, unlink_failed>>
    /\ pc' = "done"
    /\ UNCHANGED <<source, fmt, video_path, chunks_left, total_size,
                   downloaded, file_state, wait_time, slept, progress_log,
                   video_file, extracted_text, summary, summarize_arg,
                   rendered, status, fault>>

\* ------------------------------------------------------------------ Next
Next ==
    \/ NoApiKey
    \/ NoClick
    \/ ClickUrl
    \/ ClickUpload
    \/ DownloadOpen
    \/ DownloadChunk
    \/ DownloadFault
    \/ DownloadFinish
    \/ UploadFile
    \/ PollIter
    \/ PollSleep
    \/ PollQuery
    \/ PollExit
    \/ Extract
    \/ Summarize
    \/ Render
    \/ Cleanup

Spec == Init /\ [][Next]_vars

\* the run is sequential and every call returns or raises, so an enabled
\* step of the run is eventually taken
FairSpec == Spec /\ WF_vars(Next)

TypeOK ==
    /\ pc \in {"main", "download", "stream", "upload", "poll", "sleep",
               "query", "extract",
               "summarize", "render", "cleanup", "done"}
    /\ source \in {"none", "url", "file"}
    /\ fmt \in Formats \cup {None}
    /\ files \subseteq {NamedTemporaryFile}
    /\ video_path \in {None, TmpName}
    /\ chunks_left \in 0..MaxChunks
    /\ total_size \in 0..MaxChunks
    /\ downloaded \in 0..MaxChunks
    /\ file_state \in States \cup {None}
    /\ wait_time \in 0..(max_wait_time + poll_interval)
    /\ slept \in 0..max_wait_time
    /\ video_file \in {None, "handle"}
    /\ extracted_text \in Texts \cup {None}
    /\ summary \in Texts \cup {None}
    /\ rendered \subseteq ResultPanes
    /\ calls \in [Ops -> Nat]
    /\ unlink_failed \in BOOLEAN
    /\ cleanup_reached \in BOOLEAN

\* ================================================================ claims
\* progress(1.0) was given to the poller's progress bar
FullEmitted == \E i \in 1..Len(progress_log) : progress_log[i] = FullProgress

\* the poll loop ended on a state other than PROCESSING and was classified
LoopEnded ==
    /\ pc \notin {"poll", "sleep", "query"}
    /\ file_state \in States \ {"PROCESSING"}

\* C1: extract_text_from_video is invoked only if upload_video_to_gemini
\* returned a handle and the last observed processing state is ACTIVE; it is
\* never invoked (nor about to be) while the state is anything else.
C1_ExtractOnlyWhenActive ==
    (pc = "extract" \/ calls["extract"] > 0) =>
        /\ video_file = "handle"
        /\ file_state = "ACTIVE"

\* an extraction call made after at least one PROCESSING poll
C1_Witness ==
    /\ calls["extract"] = 1
    /\ calls["get_file"] > 0
    /\ file_state = "ACTIVE"

\* C2: summarize_text is never invoked in a run where extraction faulted or
\* returned an empty or absent text.
C2_NoSummaryWithoutExtraction ==
    (pc = "summarize" \/ calls["summarize"] > 0) =>
        /\ calls["extract"] = 1
        /\ extracted_text # None
        /\ extracted_text # ""
        /\ fault \notin {"extract", "extract_text"}

\* a finished run whose extraction returned the empty text
C2_Witness ==
    /\ pc = "done"
    /\ calls["extract"] = 1
    /\ extracted_text = ""
    /\ calls["summarize"] = 0

\* C3: when the loop ends on FAILED or on a state outside {PROCESSING,
\* ACTIVE, FAILED}, right after upload or after PROCESSING polls, the poller
\* reports it (error for FAILED, warning for an unexpected state), returns no
\* handle, and no extraction or summarization call is made.
C3_BadTerminalStateStops ==
    (LoopEnded /\ file_state # "ACTIVE") =>
        /\ video_file = None
        /\ file_state = "FAILED" =>
               Reported(<<"error", "processing_failed">>)
        /\ file_state # "FAILED" =>
               Reported(<<"warning", "unexpected_state">>)
        /\ ~Reported(<<"success", "video_ready">>)
        /\ pc \in {"cleanup", "done"}
        /\ calls["extract"] = 0
        /\ calls["summarize"] = 0

\* a finished run that saw an unexpected state after PROCESSING polls
C3_Witness ==
    /\ pc = "done"
    /\ file_state = "STATE_UNSPECIFIED"
    /\ calls["get_file"] > 1

\* C4: when wait_time exceeds max_wait_time while the state is still
\* PROCESSING the poller reports the timeout, returns no handle, and
\* extraction is never attempted.
C4_TimeoutStops ==
    (wait_time > max_wait_time) =>
        /\ file_state = "PROCESSING"
        /\ Reported(<<"error", "timeout">>)
        /\ video_file = None
        /\ pc \in {"cleanup", "done"}
        /\ calls["extract"] = 0
        /\ calls["summarize"] = 0

\* a finished run that timed out after the full series of polls
C4_Witness ==
    /\ pc = "done"
    /\ wait_time > max_wait_time
    /\ calls["get_file"] = max_wait_time \div poll_interval

\* C5: after the pipeline ends, on any exit path, no transient file created
\* by the run exists, provided the delete itself did not fail.
C5_NoTransientFileAfterEnd ==
    (pc = "done" /\ ~unlink_failed) => files = {}

\* C6: progress 1.0 is emitted only when the observed state has become
\* ACTIVE; in runs that end in FAILED, an unexpected state or a timeout the
\* value 1.0 is never emitted.
C6_FullOnlyWhenActive ==
    FullEmitted => file_state = "ACTIVE"

\* C7: the progress values of one run never decrease, and the value emitted
\* in the k-th loop iteration (state PROCESSING, wait_time = 2k) equals
\* min(wait_time / 300, 0.9), so it is at most 0.9, the timeout iteration
\* included.
C7_ProgressMonotoneAndCapped ==
    /\ \A i \in 1..(Len(progress_log) - 1) :
           progress_log[i] <= progress_log[i + 1]
    /\ \A k \in 1..(wait_time \div poll_interval) :
           /\ 10 * progress_log[k + 1] =
                  Min(10 * k * poll_interval, 9 * max_wait_time)
           /\ 10 * progress_log[k + 1] <= 9 * max_wait_time

\* the timeout iteration has emitted its value
C7_Witness ==
    /\ wait_time > max_wait_time
    /\ Len(progress_log) = 1 + (wait_time \div poll_interval)
    /\ progress_log[Len(progress_log)] = ProgressCap

\* C8: whenever the generation service faults or returns an empty response
\* for the extraction, an error and no success is reported for the
\* extraction stage.
C8_EmptyExtractionIsError ==
    (calls["extract"] > 0 /\
         (extracted_text = "" \/ fault \in {"extract", "extract_text"})) =>
        /\ Reported(<<"error", "extract_error">>)
        /\ ~Reported(<<"success", "extracted">>)

\* C9: the extracted text is rendered if and only if the summary is
\* rendered, only when both texts are non-empty; a run whose summarization
\* failed or returned empty renders neither.
C9_AllOrNothing ==
    /\ ("extracted_text" \in rendered) <=> ("summary" \in rendered)
    /\ rendered # {} =>
           /\ extracted_text \notin {None, ""}
           /\ summary \notin {None, ""}
    /\ (pc \in {"render", "cleanup", "done"} /\
            (summary \in {None, ""} \/ extracted_text \in {None, ""})) =>
           rendered = {}
    /\ (pc = "done" /\ extracted_text \notin {None, ""}
            /\ summary \notin {None, ""}) =>
           rendered = {"extracted_text", "summary", "report"}

\* a finished run that rendered both texts
C9_Witness ==
    /\ pc = "done"
    /\ "extracted_text" \in rendered
    /\ "summary" \in rendered
    /\ summary = "t2"

\* the status message a fault of the remote call c produces
FaultMsg(c) ==
    IF c = "get" THEN <<"error", "download_error">>
    ELSE IF c \in {"upload_file", "get_file"} THEN <<"error", "upload_error">>
    ELSE IF c \in {"extract", "extract_text"}
         THEN <<"error", "extract_error">>
    ELSE <<"error", "summary_error">>

\* C10: a fault of any remote call is caught in its stage, produces a status
\* message and an absent result, the run still reaches the transient-file
\* cleanup step, and no further stage call is made.
C10_FaultsContained ==
    (fault # None /\ pc = "done") =>
        /\ Reported(FaultMsg(fault))
        /\ cleanup_reached
        /\ fault = "get" =>
               video_path = None /\ calls["upload_file"] = 0
        /\ fault \in {"upload_file", "get_file"} =>
               video_file = None /\ calls["extract"] = 0
        /\ fault \in {"extract", "extract_text"} =>
               extracted_text = None /\ calls["summarize"] = 0
        /\ fault \in {"summarize", "summarize_text"} =>
               summary = None /\ rendered = {}

\* C11: the upload is a single attempt: upload_file is called at most once
\* in a run, and when it faults no readiness poll, no extraction and no
\* summarization call is made.
C11_SingleUploadAttempt ==
    /\ calls["upload_file"] <= 1
    /\ fault = "upload_file" =>
           /\ calls["upload_file"] = 1
           /\ calls["get_file"] = 0
           /\ calls["extract"] = 0
           /\ calls["summarize"] = 0
           /\ progress_log = <<>>
           /\ pc \in {"cleanup", "done"}

\* a finished run whose upload faulted
C11_Witness ==
    /\ pc = "done"
    /\ fault = "upload_file"
    /\ Reported(<<"error", "upload_error">>)

\* the value v (a numerator over max_wait_time) is about 0.013
About013(v) ==
    /\ 1000 * v >= 12 * max_wait_time
    /\ 1000 * v <= 14 * max_wait_time

\* the scenario's run: PROCESSING in the iterations with wait_time 2 and 4,
\* then ACTIVE (read either as the second or as the third re-query)
C12_ScenarioEnded ==
    /\ LoopEnded
    /\ file_state = "ACTIVE"
    /\ calls["get_file"] \in {2, 3}

\* C12 as stated: in the scenario the poller returns the handle and the
\* emitted progress values (the bar's initial 0 left aside) are exactly
\* three: about 0.013, about 0.013, then 1.0.
C12_ScenarioProgressAsStated ==
    C12_ScenarioEnded =>
        /\ video_file = "handle"
        /\ Len(progress_log) = 4
        /\ About013(progress_log[2])
        /\ About013(progress_log[3])
        /\ progress_log[4] = FullProgress

\* C12 amended: when the state is PROCESSING after the upload and after the
\* first re-query and ACTIVE after the second, the poller returns the handle
\* and, after the bar's initial 0, exactly three values are emitted: 2/300
\* (about 0.0067), 4/300 (about 0.013), then 1.0.
C12_ScenarioProgress ==
    (C12_ScenarioEnded /\ calls["get_file"] = 2) =>
        /\ video_file = "handle"
        /\ wait_time = 4
        /\ progress_log = <<0, 2, 4, max_wait_time>>
        /\ ~About013(progress_log[2])
        /\ About013(progress_log[3])

\* the scenario's run has returned from the poller
C12_Witness ==
    /\ calls["get_file"] = 2
    /\ file_state = "ACTIVE"
    /\ pc = "extract"
    /\ Len(progress_log) = 4

\* C13: whenever extraction returned a non-empty text, summarize_text is
\* invoked exactly once in the run, with exactly that text as its input.
C13_SummarizeOnceWithExtractedText ==
    /\ calls["summarize"] <= 1
    /\ (pc \in {"render", "cleanup", "done"} /\ calls["extract"] = 1
            /\ extracted_text \notin {None, ""}) =>
           /\ calls["summarize"] = 1
           /\ summarize_arg = extracted_text
    /\ calls["summarize"] = 1 => summarize_arg = extracted_text

\* a finished run whose extraction returned "t1" and was summarized
C13_Witness ==
    /\ pc = "done"
    /\ extracted_text = "t1"
    /\ summarize_arg = "t1"
    /\ calls["summarize"] = 1

\* the suffix that corresponds to a format hint
SuffixFor(f) ==
    CASE f = "mp4" -> ".mp4"
      [] f = "mov" -> ".mov"
      [] f = "avi" -> ".avi"
      [] f = "webm" -> ".webm"
      [] f = "mpg" -> ".mpg"
      [] f = "mpeg" -> ".mpeg"
      [] f = "wmv" -> ".wmv"
      [] f = "flv" -> ".flv"

\* C14: for every accepted format hint the uploaded bytes are persisted to
\* a transient file whose suffix corresponds to that media type.
C14_SuffixMatchesFormat ==
    (source = "file" /\ fmt \in Formats /\ pc = "upload") =>
        /\ Exists(video_path)
        /\ \A f \in files : f.name = video_path => f.suffix = SuffixFor(fmt)

\* the number of sleeps that fit under the ceiling: 300 / 2 = 150
MaxPolls == max_wait_time \div poll_interval

\* C15: the poller always terminates: it performs at most 150 sleeps and
\* 150 re-queries (at most 300 units slept), even when every query reports
\* PROCESSING, and once the ceiling is passed it has returned with no
\* further re-query.
C15_PollerTerminates ==
    /\ [](/\ calls["get_file"] <= MaxPolls
          /\ slept <= max_wait_time
          /\ slept = poll_interval * calls["get_file"]
                     + (IF pc = "query" THEN poll_interval ELSE 0)
          /\ Reported(<<"error", "timeout">>) =>
                 /\ calls["get_file"] = MaxPolls
                 /\ slept = max_wait_time
                 /\ pc \in {"cleanup", "done"})
    /\ (pc \in {"poll", "sleep", "query"})
           ~> (pc \notin {"poll", "sleep", "query"})

\* the remote service reported PROCESSING on every one of the 150 queries
C15_Witness ==
    /\ calls["get_file"] = MaxPolls
    /\ slept = max_wait_time
    /\ file_state = "PROCESSING"
    /\ Reported(<<"error", "timeout">>)

\* C16 as stated: a timeout is reported only when the total of the sleep
\* intervals actually performed strictly exceeds the ceiling; no run whose
\* slept time is at or below 300 is aborted.
C16_TimeoutOnlyAfterCeilingSlept ==
    Reported(<<"error", "timeout">>) => slept > max_wait_time

\* C16 amended: a timeout is reported only when the wait counter, which is
\* advanced before each sleep and so runs one interval ahead of the time
\* slept, strictly exceeds the ceiling while the state is PROCESSING: that
\* is after exactly 300 units of sleep, never after fewer.
C16_TimeoutOnlyWhenCounterExceeds ==
    /\ Reported(<<"error", "timeout">>) =>
           /\ wait_time > max_wait_time
           /\ wait_time = slept + poll_interval
           /\ slept = max_wait_time
           /\ file_state = "PROCESSING"
    /\ (pc \in {"poll", "sleep", "query"} /\ StillProcessing(file_state)) =>
           /\ wait_time = slept + (IF pc = "sleep" THEN poll_interval ELSE 0)
           /\ wait_time <= max_wait_time
           /\ ~Reported(<<"error", "timeout">>)

\* a run aborted by the timeout with exactly the ceiling slept
C16_Witness ==
    /\ Reported(<<"error", "timeout">>)
    /\ pc = "cleanup"
    /\ slept = max_wait_time
    /\ wait_time = max_wait_time + poll_interval

\* C17: in every run where the Resolver returned a transient path the
\* deletion of that file is attempted exactly once, whichever later stage
\* failed or if all succeeded, and no upload, poll, extraction or
\* summarization call follows the deletion.
C17_DeleteOnceAtEnd ==
    /\ [](/\ calls["unlink"] <= 1
          /\ (pc = "done" /\ video_path # None) =>
                 calls["unlink"] = 1 /\ cleanup_reached
          /\ calls["unlink"] = 1 => video_path # None /\ pc = "done")
    /\ [][calls["unlink"] > 0 => calls' = calls]_vars

\* a run whose extraction faulted and whose file deletion was attempted
C17_Witness ==
    /\ pc = "done"
    /\ fault = "extract"
    /\ video_path = TmpName
    /\ calls["unlink"] = 1

\* C18: if the handle returned by the upload is already in a state other
\* than PROCESSING, the poller's next step does no sleep and no re-query,
\* leaves the wait counter at 0, and classifies that state directly: ACTIVE
\* returns the handle, FAILED or any other value returns none.
C18_NoPollWhenNotProcessing ==
    [][(pc = "poll" /\ wait_time = 0 /\ file_state # "PROCESSING") =>
           /\ slept' = 0
           /\ wait_time' = 0
           /\ calls' = calls
           /\ file_state' = file_state
           /\ pc' # "poll"
           /\ video_file' = (IF file_state = "ACTIVE" THEN "handle" ELSE None)
           /\ pc' = (IF file_state = "ACTIVE" THEN "extract" ELSE "cleanup")
      ]_vars

\* the poller returned on an initial FAILED state without polling
C18_Witness ==
    /\ pc = "cleanup"
    /\ file_state = "FAILED"
    /\ calls["upload_file"] = 1
    /\ calls["get_file"] = 0
    /\ slept = 0
    /\ wait_time = 0
    /\ Len(progress_log) = 2

====
